---- MODULE Spec2Model ----
(***************************************************************************)
(* Model of Gen_AI.py, a Streamlit script.  The host framework re-runs the *)
(* whole script, top to bottom, on every widget interaction; a button      *)
(* reads True only in the run triggered by its own click; only            *)
(* st.session_state survives from one run to the next.                     *)
(* One script run is the sequence of steps                                 *)
(*   login_section -> gate -> profile -> explain -> plan -> cagr (x3)      *)
(*   -> average -> pdf -> qa -> feedback                                   *)
(* and pc = "idle" between runs.                                           *)
(***************************************************************************)
EXTENDS Integers, Sequences, FiniteSets, TLC

VARIABLES
    pc,              \* position of the running script, "idle" between runs
    clicked,         \* the button whose click triggered this run, or "none"
    session,         \* st.session_state: function from keys to values
    email,           \* value of the sidebar e-mail text input
    risk_tolerance,  \* value of the Risk Tolerance selectbox
    rendered,        \* widgets drawn by the current / last run
    executed,        \* sections of the script executed by the current / last run
    exception,       \* uncaught exception that ended the current / last run
    posts,           \* chat-completion requests sent by the current / last run
    allocation,      \* script local (option: {} is unbound)
    explanation,     \* script local (option)
    mip_info,        \* script local (option)
    returns,         \* script local: ticker label -> option of CAGR in 1/100 %
    avg_cagr,        \* script local (option), in 1/100 %
    pdf_args,        \* arguments generate_pdf was called with in this run (option)
    response,        \* response to the latest chat-completion request of this run (option)
    downloaded,      \* history the latest yf.download of this run returned (option)
    question,        \* value of the question text input read by this run
    calc             \* the pure-function harness (annuity / allocation)

vars == <<pc, clicked, session, email, risk_tolerance, rendered, executed,
          exception, posts, allocation, explanation, mip_info, returns,
          avg_cagr, pdf_args, response, downloaded, question, calc>>

None == {}
Some(x) == {x}
The(o) == CHOOSE x \in o : TRUE

(***************************************************************************)
(* Session state as a dictionary                                           *)
(***************************************************************************)
EmptySession == [k \in {} |-> ""]
Put(ss, k, v) == [x \in DOMAIN ss \cup {k} |-> IF x = k THEN v ELSE ss[x]]


(***************************************************************************)
(* Widgets                                                                 *)
(***************************************************************************)
Buttons == {"Login", "Generate", "PDF", "AskGPT", "Restart"}
RiskOptions == {"Low", "Medium", "High"}
Emails == {"", "a@b.c"}
PlanTypes == {"goal", "monthly"}
Ratings == {"Select", "Excellent", "Good", "Average", "Poor"}
Questions == {"", "  ", "Why gold?"}

\* str.strip() on the question texts the model enumerates
strip(q) == IF q = "  " THEN "" ELSE q

(***************************************************************************)
(* get_portfolio_allocation                                                *)
(***************************************************************************)
\* variant: a mistyped percentage in the last row
get_portfolio_allocation_typo(risk) ==
    IF risk = "Low" THEN [Equity |-> 30, Debt |-> 60, Gold |-> 10]
    ELSE IF risk = "Medium" THEN [Equity |-> 50, Debt |-> 40, Gold |-> 10]
    ELSE [Equity |-> 70, Debt |-> 20, Gold |-> 20]

\* variant: High is tested for and an unknown label gets the cautious row
get_portfolio_allocation_default_low(risk) ==
    IF risk = "Medium" THEN [Equity |-> 50, Debt |-> 40, Gold |-> 10]
    ELSE IF risk = "High" THEN [Equity |-> 70, Debt |-> 20, Gold |-> 10]
    ELSE [Equity |-> 30, Debt |-> 60, Gold |-> 10]

get_portfolio_allocation(risk) ==
    IF risk = "Low" THEN [Equity |-> 30, Debt |-> 60, Gold |-> 10]
    ELSE IF risk = "Medium" THEN [Equity |-> 50, Debt |-> 40, Gold |-> 10]
    ELSE [Equity |-> 70, Debt |-> 20, Gold |-> 10]

(***************************************************************************)
(* The chat-completion endpoint.  A response is what requests.post and     *)
(* response.json() deliver: the transport may fail, the body may not be    *)
(* JSON, and a JSON body may lack any level of                             *)
(* ["choices"][0]["message"]["content"].                                   *)
(***************************************************************************)
Responses ==
    { [delivered |-> FALSE, json |-> FALSE, body |-> [raw |-> ""]],
      [delivered |-> TRUE,  json |-> FALSE, body |-> [raw |-> "<html>"]],
      [delivered |-> TRUE,  json |-> TRUE,  body |-> [error |-> "rate limited"]],
      [delivered |-> TRUE,  json |-> TRUE,  body |-> [choices |-> <<>>]],
      [delivered |-> TRUE,  json |-> TRUE,  body |-> [choices |-> <<[index |-> "0"]>>]],
      [delivered |-> TRUE,  json |-> TRUE,
       body |-> [choices |-> <<[message |-> [role |-> "assistant"]]>>]],
      [delivered |-> TRUE,  json |-> TRUE,
       body |-> [choices |-> <<[message |-> [content |-> "advice"]]>>]] }

\* stands for the response of a request that is not sent
NoResponse == [delivered |-> FALSE, json |-> FALSE, body |-> [raw |-> ""]]

\* response.json()["choices"][0]["message"]["content"], with the exception
\* Python raises where a level is missing
Content(resp) ==
    IF ~resp.delivered THEN [raised |-> "ConnectionError", value |-> None]
    ELSE IF ~resp.json THEN [raised |-> "JSONDecodeError", value |-> None]
    ELSE IF "choices" \notin DOMAIN resp.body THEN [raised |-> "KeyError", value |-> None]
    ELSE IF Len(resp.body.choices) = 0 THEN [raised |-> "IndexError", value |-> None]
    ELSE IF "message" \notin DOMAIN resp.body.choices[1]
         THEN [raised |-> "KeyError", value |-> None]
    ELSE IF "content" \notin DOMAIN resp.body.choices[1].message
         THEN [raised |-> "KeyError", value |-> None]
    ELSE [raised |-> "none", value |-> Some(resp.body.choices[1].message.content)]

\* variant: a failed response is swallowed and an empty explanation returned
explain_portfolio_fallback(resp) ==
    [sent |-> 1,
     result |-> IF Content(resp).raised = "none" THEN Content(resp)
                ELSE [raised |-> "none", value |-> Some("")]]

\* explain_portfolio: one POST (line 47), whose response is resp; the result
\* is the explanation or the exception line 48 raises
explain_portfolio(resp) ==
    [sent |-> 1, result |-> Content(resp)]


(***************************************************************************)
(* Exact arithmetic.  Python evaluates the annuity and CAGR expressions in *)
(* binary64; the model evaluates the same expressions over the rationals,  *)
(* with naturals of arbitrary size held as little-endian sequences of      *)
(* base-100 limbs (no leading zero limb; zero is the empty sequence).      *)
(***************************************************************************)
RECURSIVE FromInt(_)
FromInt(n) == IF n = 0 THEN <<>> ELSE <<n % 100>> \o FromInt(n \div 100)

Limb(a, i) == IF i <= Len(a) THEN a[i] ELSE 0

\* a without its leading zero limbs
Strip(a) ==
    LET nz == {i \in 1 .. Len(a) : a[i] # 0}
    IN IF nz = {} THEN <<>>
       ELSE SubSeq(a, 1, CHOOSE i \in nz : \A j \in nz : j <= i)

\* The limbs raw[lo .. hi], each any integer, brought into 0 .. 99 with the
\* carry c coming in and the carry going out; halving keeps the recursion
\* shallow.
RECURSIVE Carry(_, _, _, _)
Carry(raw, lo, hi, c) ==
    IF lo > hi THEN [digits |-> <<>>, carry |-> c]
    ELSE IF lo = hi
    THEN LET t == raw[lo] + c
         IN [digits |-> <<t % 100>>, carry |-> t \div 100]
    ELSE LET mid == (lo + hi) \div 2
             left == Carry(raw, lo, mid, c)
             right == Carry(raw, mid + 1, hi, left.carry)
         IN [digits |-> left.digits \o right.digits, carry |-> right.carry]

Normal(raw) ==
    LET r == Carry(raw, 1, Len(raw), 0) IN Strip(r.digits \o FromInt(r.carry))

\* a * m, for a machine-size multiplier m >= 0
MulSmall(a, m) ==
    IF a = <<>> THEN <<>> ELSE Normal([i \in 1 .. Len(a) |-> a[i] * m])

Max(x, y) == IF x >= y THEN x ELSE y

Add(a, b) ==
    IF a = <<>> THEN b
    ELSE IF b = <<>> THEN a
    ELSE Normal([i \in 1 .. Max(Len(a), Len(b)) |-> Limb(a, i) + Limb(b, i)])

\* a - b, for a >= b
Sub(a, b) ==
    IF b = <<>> THEN a ELSE Normal([i \in 1 .. Len(a) |-> a[i] - Limb(b, i)])

\* acc * b^n
RECURSIVE MulPow(_, _, _)
MulPow(acc, b, n) ==
    IF n = 0 \/ acc = <<>> THEN acc
    ELSE IF n = 1 THEN MulSmall(acc, b)
    ELSE MulPow(MulPow(acc, b, n \div 2), b, n - n \div 2)

PowSmall(b, n) == MulPow(<<1>>, b, n)

\* -1, 0, 1 as a < b, a = b, a > b
Cmp(a, b) ==
    IF Len(a) < Len(b) THEN -1
    ELSE IF Len(a) > Len(b) THEN 1
    ELSE LET d == {i \in 1 .. Len(a) : a[i] # b[i]}
         IN IF d = {} THEN 0
            ELSE LET i == CHOOSE k \in d : \A j \in d : j <= k
                 IN IF a[i] < b[i] THEN -1 ELSE 1

\* a power of two above num / den
RECURSIVE Above(_, _, _)
Above(num, den, hi) ==
    IF Cmp(MulSmall(den, hi), num) > 0 THEN hi ELSE Above(num, den, 2 * hi)

\* the q in lo .. hi-1 with q*den <= num < (q+1)*den
RECURSIVE Bisect(_, _, _, _)
Bisect(num, den, lo, hi) ==
    IF hi - lo = 1 THEN lo
    ELSE LET mid == (lo + hi) \div 2
         IN IF Cmp(MulSmall(den, mid), num) <= 0
            THEN Bisect(num, den, mid, hi)
            ELSE Bisect(num, den, lo, mid)

\* floor(num / den), den > 0
FloorDiv(num, den) == Bisect(num, den, 0, Above(num, den, 1))

\* Python's round() of num / den to an integer: nearest, ties to even
round(num, den) ==
    LET q == FloorDiv(num, den)
        c == Cmp(MulSmall(num, 2), MulSmall(den, 2 * q + 1))
    IN IF c < 0 THEN q
       ELSE IF c > 0 THEN q + 1
       ELSE IF q % 2 = 0 THEN q ELSE q + 1

RECURSIVE Gcd(_, _)
Gcd(a, b) == IF b = 0 THEN a ELSE Gcd(b, a % b)


(***************************************************************************)
(* Bounds and input domains                                                *)
(***************************************************************************)
\* Investment Duration slider: 1 .. 40 in the source, 1 .. MaxYears here
MaxYears == 2
\* Expected Annual Return slider: 6.0 .. 15.0, whole percents of that range
SliderRates == {12, 15}
Targets == {4500000}
Monthlies == {5000}
Histories ==
    { [columns |-> {"Close", "Volume"}, rows |-> <<100, 200>>],
      [columns |-> {"Adj Close", "Close", "Volume"}, rows |-> <<>>],
      [columns |-> {"Adj Close", "Close", "Volume"}, rows |-> <<100, 200>>],
      [columns |-> {"Adj Close", "Close", "Volume"}, rows |-> <<200, 150, 100>>] }

(***************************************************************************)
(* Monthly Investment Plan (lines 125-143).  rate is the annual return in  *)
(* whole percent, years the duration; amounts are whole rupees.            *)
(***************************************************************************)
months(years) == years * 12

\* rate / 100 / 12 as a fraction in lowest terms
monthly_rate(rate) ==
    LET g == Gcd(1200, rate) IN [num |-> rate \div g, den |-> 1200 \div g]

\* ((1 + monthly_rate) ** months - 1) * den^months, a natural
GrowthMinusOne(rate, years) ==
    LET r == monthly_rate(rate)
    IN Sub(PowSmall(r.den + r.num, months(years)), PowSmall(r.den, months(years)))

\* monthly_rate * den^months, a natural
RateScaled(rate, years) ==
    LET r == monthly_rate(rate)
    IN MulSmall(PowSmall(r.den, months(years) - 1), r.num)

\* variant: the quotient is truncated, int(...), instead of rounded
MonthlyForTarget_truncated(target, rate, years) ==
    LET den == GrowthMinusOne(rate, years)
    IN IF den = <<>>
       THEN [raised |-> "ZeroDivisionError", value |-> 0]
       ELSE [raised |-> "none",
             value |-> FloorDiv(MulSmall(RateScaled(rate, years), target), den)]

\* lines 134-135: round(target * monthly_rate / ((1 + monthly_rate) ** months - 1))
MonthlyForTarget(target, rate, years) ==
    LET den == GrowthMinusOne(rate, years)
    IN IF den = <<>>
       THEN [raised |-> "ZeroDivisionError", value |-> 0]
       ELSE [raised |-> "none",
             value |-> round(MulSmall(RateScaled(rate, years), target), den)]

\* lines 140-141: round(monthly * (((1 + monthly_rate) ** months - 1) / monthly_rate))
FutureForMonthly(monthly, rate, years) ==
    LET den == RateScaled(rate, years)
    IN IF den = <<>>
       THEN [raised |-> "ZeroDivisionError", value |-> 0]
       ELSE [raised |-> "none",
             value |-> round(MulSmall(GrowthMinusOne(rate, years), monthly), den)]

\* lines 130-143: the plan for the chosen plan type; amount is the number
\* input of that branch (target corpus or monthly investment)
InvestmentPlan(plan_type, amount, rate, years) ==
    IF plan_type = "goal"
    THEN LET m == MonthlyForTarget(amount, rate, years)
         IN [raised |-> m.raised,
             info |-> [mode |-> "goal", monthly |-> m.value, years |-> years,
                       rate |-> rate, future_value |-> amount]]
    ELSE LET f == FutureForMonthly(amount, rate, years)
         IN [raised |-> f.raised,
             info |-> [mode |-> "monthly", monthly |-> amount, years |-> years,
                       rate |-> rate, future_value |-> f.value]]

\* what the widgets of lines 123-139 can hand to the calculation
PlanInputs ==
    { [plan_type |-> "goal", amount |-> a, rate |-> r, years |-> y] :
        a \in Targets, r \in SliderRates, y \in 1 .. MaxYears }
    \cup
    { [plan_type |-> "monthly", amount |-> a, rate |-> r, years |-> y] :
        a \in Monthlies, r \in SliderRates, y \in 1 .. MaxYears }

\* InvestmentPlan tabulated over the widget values
PlanOf ==
    [in \in PlanInputs |-> InvestmentPlan(in.plan_type, in.amount, in.rate, in.years)]

(***************************************************************************)
(* fetch_cagr (lines 51-60).  A price history is the DataFrame yf.download *)
(* returns: its columns and, row by row, the adjusted-close price.  The    *)
(* result is an option of the CAGR in hundredths of a percent.             *)
(***************************************************************************)
\* the j >= 1 with (2j-1)^years * start <= end * 20000^years < (2j+1)^years * start
RECURSIVE RootAbove(_, _, _, _)
RootAbove(start, scaledEnd, years, hi) ==
    IF Cmp(MulSmall(PowSmall(2 * hi - 1, years), start), scaledEnd) > 0 THEN hi
    ELSE RootAbove(start, scaledEnd, years, 2 * hi)

RECURSIVE RootBisect(_, _, _, _, _)
RootBisect(start, scaledEnd, years, lo, hi) ==
    IF hi - lo = 1 THEN lo
    ELSE LET mid == (lo + hi) \div 2
         IN IF Cmp(MulSmall(PowSmall(2 * mid - 1, years), start), scaledEnd) <= 0
            THEN RootBisect(start, scaledEnd, years, mid, hi)
            ELSE RootBisect(start, scaledEnd, years, lo, mid)

\* lines 59-60: round((((end / start) ** (1 / years)) - 1) * 100, 2), in 1/100 %.
\* With x = 10000 * ((end/start)^(1/years) - 1), round gives the k with
\* k - 1/2 <= x < k + 1/2, that is (20000 + 2k - 1)^years * start <=
\* end * 20000^years; j is k + 10000.
CagrHundredths(start_price, end_price, years) ==
    LET scaledEnd == MulSmall(PowSmall(20000, years), end_price)
        hi == RootAbove(start_price, scaledEnd, years, 1)
    IN RootBisect(start_price, scaledEnd, years, 0, hi) - 10000

\* variant: only data.empty is tested, the price column is taken for granted
fetch_cagr_no_column_check(data, years) ==
    IF data.rows = <<>>
    THEN None
    ELSE Some(CagrHundredths(data.rows[1], data.rows[Len(data.rows)], years))

fetch_cagr(data, years) ==
    IF data.rows = <<>> \/ data.columns = {} \/ "Adj Close" \notin data.columns
    THEN None
    ELSE Some(CagrHundredths(data.rows[1], data.rows[Len(data.rows)], years))

(***************************************************************************)
(* Average CAGR (lines 156-159)                                            *)
(***************************************************************************)
Tickers == <<"Equity", "Debt", "Gold">>

\* [r for r in returns.values() if r is not None], in dictionary order
RECURSIVE ValidFrom(_, _)
ValidFrom(rets, i) ==
    IF i > Len(Tickers) THEN <<>>
    ELSE IF Tickers[i] \in DOMAIN rets /\ rets[Tickers[i]] # None
         THEN <<The(rets[Tickers[i]])>> \o ValidFrom(rets, i + 1)
         ELSE ValidFrom(rets, i + 1)

\* variant: an absent estimate is counted as 0 instead of being left out
valid_returns_zero_for_absent(rets) ==
    [i \in 1 .. Len(Tickers) |->
        IF rets[Tickers[i]] # None THEN The(rets[Tickers[i]]) ELSE 0]

valid_returns(rets) == ValidFrom(rets, 1)

RECURSIVE sum(_)
sum(xs) == IF xs = <<>> THEN 0 ELSE Head(xs) + sum(Tail(xs))

\* floor of a / b for b > 0 and any integer a
Floor(a, b) == IF a >= 0 THEN a \div b ELSE -((-a + b - 1) \div b)

\* round(total / n, 2) on amounts in hundredths: the nearest hundredth.  A
\* mean exactly halfway between two hundredths is decided by the binary64
\* value of the quotient, which lies on either side: both are possible.
MeanRounded(total, n) ==
    LET q == Floor(total, n)
        rem == total - q * n
    IN IF 2 * rem < n THEN {q}
       ELSE IF 2 * rem > n THEN {q + 1}
       ELSE {q, q + 1}


\* fetch_cagr("...") with the default years=5, tabulated over the histories
CagrOf == [data \in Histories |-> fetch_cagr(data, 5)]

\* lines 156-158: the average the run reports, or None when it reports none
AverageCagr(rets) ==
    LET v == valid_returns(rets)
    IN IF v = <<>> THEN {None}
       ELSE {Some(a) : a \in MeanRounded(sum(v), Len(v))}

(***************************************************************************)
(* Session-state operations of the script                                  *)
(***************************************************************************)
\* lines 22-23
login_section(ss, pressed, em) == IF pressed THEN Put(ss, "user", em) ELSE ss

\* variant: the gate is left open
PassesGate_always(ss) == TRUE

\* line 96: the run goes on past the gate
PassesGate(ss) == "user" \in DOMAIN ss

\* variant: the response starts as a placeholder text
InitGptResponse_placeholder(ss) ==
    IF "gpt_response" \notin DOMAIN ss
    THEN Put(ss, "gpt_response", "No answer yet")
    ELSE ss

\* lines 170-171
InitGptResponse(ss) ==
    IF "gpt_response" \notin DOMAIN ss THEN Put(ss, "gpt_response", "") ELSE ss

\* lines 173-185: the Ask GPT block, given the response the endpoint would
\* give if asked
AskGpt(ss, pressed, user_question, resp) ==
    IF pressed /\ strip(user_question) # ""
    THEN LET reply == Content(resp)
         IN [sent |-> 1, raised |-> reply.raised,
             session |-> IF reply.raised = "none"
                         THEN Put(ss, "gpt_response", The(reply.value))
                         ELSE ss]
    ELSE [sent |-> 0, raised |-> "none", session |-> ss]

\* line 63-89: what generate_pdf is given
generate_pdf(risk, alloc, expl, mip) ==
    [risk |-> risk, allocation |-> alloc, explanation |-> expl, mip_info |-> mip]

(***************************************************************************)
(* The script runs                                                         *)
(***************************************************************************)
NoReturns == [t \in {} |-> None]
CalcOff == [stage |-> "off", op |-> "none", risk |-> "Low", plan_type |-> "goal",
            amount |-> 0, rate |-> 0, years |-> 0,
            alloc |-> None, plan |-> None, back |-> None]

\* a new run starts at the top of the script with fresh locals
StartRun(b) ==
    /\ pc' = "login_section"
    /\ clicked' = b
    /\ rendered' = {}
    /\ executed' = {}
    /\ exception' = "none"
    /\ posts' = 0
    /\ allocation' = None
    /\ explanation' = None
    /\ mip_info' = None
    /\ returns' = NoReturns
    /\ avg_cagr' = None
    /\ pdf_args' = None
    /\ response' = None
    /\ downloaded' = None
    /\ question' = ""

Locals == <<allocation, explanation, mip_info, returns, avg_cagr, pdf_args,
            response, downloaded, question>>

\* the user clicks a button the last run drew
Click(b) ==
    /\ pc = "idle"
    /\ b \in Buttons \cap rendered
    /\ StartRun(b)
    /\ UNCHANGED <<session, email, risk_tolerance, calc>>

EditEmail(e) ==
    /\ pc = "idle"
    /\ "email" \in rendered
    /\ e # email
    /\ email' = e
    /\ StartRun("none")
    /\ UNCHANGED <<session, risk_tolerance, calc>>

SelectRisk(r) ==
    /\ pc = "idle"
    /\ "risk" \in rendered
    /\ r # risk_tolerance
    /\ risk_tolerance' = r
    /\ StartRun("none")
    /\ UNCHANGED <<session, email, calc>>

\* the user changes an input drawn inside the Generate Portfolio block
\* (plan type, sliders, amounts, question, rating): a run without a click
ChangeInput ==
    /\ pc = "idle"
    /\ "plan" \in rendered
    /\ StartRun("none")
    /\ UNCHANGED <<session, email, risk_tolerance, calc>>

\* line 95 and lines 19-24
LoginSection ==
    /\ pc = "login_section"
    /\ rendered' = rendered \cup {"email", "Login"}
    /\ executed' = executed \cup {"login_section"}
    /\ session' = login_section(session, clicked = "Login", email)
    /\ pc' = "gate"
    /\ UNCHANGED <<clicked, email, risk_tolerance, exception, posts, Locals, calc>>

\* lines 96-97
Gate ==
    /\ pc = "gate"
    /\ pc' = IF PassesGate(session) THEN "profile" ELSE "idle"
    /\ UNCHANGED <<clicked, session, email, risk_tolerance, rendered, executed,
                   exception, posts, Locals, calc>>

\* lines 99-115
Profile ==
    /\ pc = "profile"
    /\ rendered' = rendered \cup {"risk", "Generate"}
    /\ IF clicked = "Generate"
       THEN /\ allocation' = Some(get_portfolio_allocation(risk_tolerance))
            /\ executed' = executed \cup {"profile", "allocation"}
            /\ pc' = "explain"
       ELSE /\ allocation' = allocation
            /\ executed' = executed \cup {"profile"}
            /\ pc' = "idle"
    /\ UNCHANGED <<clicked, session, email, risk_tolerance, exception, posts,
                   explanation, mip_info, returns, avg_cagr, pdf_args,
                   response, downloaded, question, calc>>

\* lines 117-119
Explain ==
    /\ pc = "explain"
    /\ \E resp \in Responses :
         LET e == explain_portfolio(resp)
         IN /\ posts' = posts + e.sent
            /\ response' = Some(resp)
            /\ exception' = e.result.raised
            /\ explanation' = e.result.value
            /\ pc' = IF e.result.raised = "none" THEN "plan" ELSE "idle"
    /\ executed' = executed \cup {"explain"}
    /\ UNCHANGED <<clicked, session, email, risk_tolerance, rendered,
                   allocation, mip_info, returns, avg_cagr, pdf_args,
                   downloaded, question, calc>>

\* lines 121-143
Plan ==
    /\ pc = "plan"
    /\ \E in \in PlanInputs :
         LET p == PlanOf[in]
         IN /\ exception' = p.raised
            /\ mip_info' = IF p.raised = "none" THEN Some(p.info) ELSE None
            /\ pc' = IF p.raised = "none" THEN "cagr" ELSE "idle"
    /\ rendered' = rendered \cup {"plan"}
    /\ executed' = executed \cup {"plan"}
    /\ UNCHANGED <<clicked, session, email, risk_tolerance, posts,
                   allocation, explanation, returns, avg_cagr, pdf_args,
                   response, downloaded, question, calc>>

\* lines 146-151: one fetch_cagr call, the tickers in dictionary order
Cagr ==
    /\ pc = "cagr"
    /\ \E d \in Histories :
         LET t == Tickers[Cardinality(DOMAIN returns) + 1]
         IN /\ returns' = Put(returns, t, CagrOf[d])
            /\ downloaded' = Some(d)
    /\ pc' = IF Cardinality(DOMAIN returns) + 1 = Len(Tickers) THEN "average" ELSE "cagr"
    /\ executed' = executed \cup {"cagr"}
    /\ UNCHANGED <<clicked, session, email, risk_tolerance, rendered, exception,
                   posts, allocation, explanation, mip_info, avg_cagr, pdf_args,
                   response, question, calc>>

\* lines 153-159
Average ==
    /\ pc = "average"
    /\ avg_cagr' \in AverageCagr(returns)
    /\ pc' = "pdf"
    /\ executed' = executed \cup {"average"}
    /\ UNCHANGED <<clicked, session, email, risk_tolerance, rendered, exception,
                   posts, allocation, explanation, mip_info, returns, pdf_args,
                   response, downloaded, question, calc>>

\* lines 161-164
PdfReport ==
    /\ pc = "pdf"
    /\ rendered' = rendered \cup {"PDF"}
    /\ IF clicked = "PDF"
       THEN /\ pdf_args' = Some(generate_pdf(risk_tolerance, The(allocation),
                                             The(explanation), The(mip_info)))
            /\ executed' = executed \cup {"pdf", "generate_pdf"}
       ELSE /\ pdf_args' = pdf_args
            /\ executed' = executed \cup {"pdf"}
    /\ pc' = "qa"
    /\ UNCHANGED <<clicked, session, email, risk_tolerance, exception, posts,
                   allocation, explanation, mip_info, returns, avg_cagr,
                   response, downloaded, question, calc>>

\* lines 166-189
QA ==
    /\ pc = "qa"
    /\ rendered' = rendered \cup {"question", "AskGPT"}
    /\ \E q \in Questions :
       \E resp \in (IF clicked = "AskGPT" THEN Responses ELSE {NoResponse}) :
         LET a == AskGpt(InitGptResponse(session), clicked = "AskGPT", q, resp)
         IN /\ question' = q
            /\ session' = a.session
            /\ posts' = posts + a.sent
            /\ response' = IF a.sent = 1 THEN Some(resp) ELSE response
            /\ exception' = a.raised
            /\ pc' = IF a.raised = "none" THEN "feedback" ELSE "idle"
    /\ executed' = executed \cup {"qa"}
    /\ UNCHANGED <<clicked, email, risk_tolerance, allocation, explanation,
                   mip_info, returns, avg_cagr, pdf_args, downloaded, calc>>

\* lines 191-198
Feedback ==
    /\ pc = "feedback"
    /\ \E rating \in Ratings :
         IF rating # "Select" /\ clicked = "Restart"
         THEN \* st.session_state.clear(); st.experimental_rerun()
              /\ session' = EmptySession
              /\ StartRun("none")
         ELSE /\ rendered' = rendered \cup
                     (IF rating # "Select" THEN {"rating", "Restart"} ELSE {"rating"})
              /\ executed' = executed \cup {"feedback"}
              /\ pc' = "idle"
              /\ UNCHANGED <<clicked, session, exception, posts, Locals>>
    /\ UNCHANGED <<email, risk_tolerance, calc>>

\* the first run of a session: the page is loaded, nothing is clicked
Init ==
    /\ pc = "login_section"
    /\ clicked = "none"
    /\ session = EmptySession
    /\ email = ""
    /\ risk_tolerance = "Low"
    /\ rendered = {}
    /\ executed = {}
    /\ exception = "none"
    /\ posts = 0
    /\ allocation = None
    /\ explanation = None
    /\ mip_info = None
    /\ returns = NoReturns
    /\ avg_cagr = None
    /\ pdf_args = None
    /\ response = None
    /\ downloaded = None
    /\ question = ""
    /\ calc = CalcOff

(***************************************************************************)
(* The pure functions on their own: an input is drawn, then the            *)
(* allocation table or the annuity calculation is applied to it.  The risk *)
(* label ranges over more than the selectbox offers, and the rate over the *)
(* contract "annualRatePercent >= 0" of the calculator, which is wider     *)
(* than the range 6 .. 15 the slider of line 125 delivers.                 *)
(***************************************************************************)
RiskLabels == RiskOptions \cup {"", "low", "Aggressive"}
CalcRates == {0, 6, 7, 12, 15}
CalcTargets == {7, 1000, 120000, 4500000}
CalcMonthlies == {1, 1000, 5000}

\* the zero-rate examples: (120000, 0 %, 10 years), (1000 a month, 0 %, 10 years)
ZeroRateExamples ==
    { [CalcOff EXCEPT !.stage = "input", !.op = "plan", !.plan_type = "goal",
                      !.amount = 120000, !.rate = 0, !.years = 10],
      [CalcOff EXCEPT !.stage = "input", !.op = "plan", !.plan_type = "monthly",
                      !.amount = 1000, !.rate = 0, !.years = 10] }

CalcInputs ==
    ZeroRateExamples
    \cup
    { [CalcOff EXCEPT !.stage = "input", !.op = "allocate", !.risk = l] :
        l \in RiskLabels }
    \cup
    { [CalcOff EXCEPT !.stage = "input", !.op = "plan", !.plan_type = "goal",
                      !.amount = a, !.rate = r, !.years = y] :
        a \in CalcTargets, r \in CalcRates, y \in 1 .. MaxYears }
    \cup
    { [CalcOff EXCEPT !.stage = "input", !.op = "plan", !.plan_type = "monthly",
                      !.amount = a, !.rate = r, !.years = y] :
        a \in CalcMonthlies, r \in CalcRates, y \in 1 .. MaxYears }

AppFrame ==
    UNCHANGED <<pc, clicked, session, email, risk_tolerance, rendered, executed,
                exception, posts, Locals>>

\* get_portfolio_allocation applied to the drawn label
CalcAllocate ==
    /\ calc.stage = "input"
    /\ calc.op = "allocate"
    /\ calc' = [calc EXCEPT !.stage = "done",
                            !.alloc = Some(get_portfolio_allocation(calc.risk))]
    /\ AppFrame

\* lines 127-143 applied to the drawn plan type, amount, rate and years
CalcPlan ==
    /\ calc.stage = "input"
    /\ calc.op = "plan"
    /\ LET p == InvestmentPlan(calc.plan_type, calc.amount, calc.rate, calc.years)
       IN calc' = [calc EXCEPT !.stage = IF p.raised = "none" THEN "planned" ELSE p.raised,
                               !.plan = IF p.raised = "none" THEN Some(p.info) ELSE None]
    /\ AppFrame

\* the monthly amount solved for a target, fed back under the same rate and
\* years to the future-value calculation
CalcBack ==
    /\ calc.stage = "planned"
    /\ calc.plan_type = "goal"
    /\ LET f == FutureForMonthly(The(calc.plan).monthly, calc.rate, calc.years)
       IN calc' = [calc EXCEPT !.stage = IF f.raised = "none" THEN "done" ELSE f.raised,
                               !.back = IF f.raised = "none" THEN Some(f.value) ELSE None]
    /\ AppFrame

CalcInit ==
    /\ pc = "idle"
    /\ clicked = "none"
    /\ session = EmptySession
    /\ email = ""
    /\ risk_tolerance = "Low"
    /\ rendered = {}
    /\ executed = {}
    /\ exception = "none"
    /\ posts = 0
    /\ allocation = None
    /\ explanation = None
    /\ mip_info = None
    /\ returns = NoReturns
    /\ avg_cagr = None
    /\ pdf_args = None
    /\ response = None
    /\ downloaded = None
    /\ question = ""
    /\ calc \in CalcInputs

CalcNext == CalcAllocate \/ CalcPlan \/ CalcBack

SpecCalc == CalcInit /\ [][CalcNext]_vars

Next ==
    \/ \E b \in Buttons : Click(b)
    \/ \E e \in Emails : EditEmail(e)
    \/ \E r \in RiskOptions : SelectRisk(r)
    \/ ChangeInput
    \/ LoginSection
    \/ Gate
    \/ Profile
    \/ Explain
    \/ Plan
    \/ Cagr
    \/ Average
    \/ PdfReport
    \/ QA
    \/ Feedback

Spec == Init /\ [][Next]_vars


(***************************************************************************)
(* Properties                                                              *)
(***************************************************************************)
Abs(x) == IF x < 0 THEN -x ELSE x
AllTickers == {Tickers[i] : i \in 1 .. Len(Tickers)}
AfterExplain == {"plan", "cagr", "average", "pdf", "generate_pdf", "qa", "feedback"}
AfterGate == {"profile", "allocation", "explain"} \cup AfterExplain
AfterCagr == {"average", "pdf", "qa", "feedback"}

RECURSIVE SumOver(_, _)
SumOver(f, S) ==
    IF S = {} THEN 0
    ELSE LET t == CHOOSE x \in S : TRUE IN The(f[t]) + SumOver(f, S \ {t})

\* C1: the allocation a run computes for Low, Medium or High has exactly the
\* keys Equity, Debt and Gold, each percentage an integer in 0..100, and the
\* three percentages sum to exactly 100.
AllocationSumsTo100 ==
    allocation # None =>
        LET a == The(allocation)
        IN /\ risk_tolerance \in {"Low", "Medium", "High"}
           /\ DOMAIN a = {"Equity", "Debt", "Gold"}
           /\ \A k \in DOMAIN a : a[k] \in 0 .. 100
           /\ a["Equity"] + a["Debt"] + a["Gold"] = 100

AllocationForHigh == allocation # None /\ risk_tolerance = "High"

\* C2: get_portfolio_allocation reproduces the table Low -> (30, 60, 10),
\* Medium -> (50, 40, 10), High -> (70, 20, 10), has a result for every
\* label, and gives the High row for any label other than Low or Medium.
AllocationMatchesTable ==
    calc.op = "allocate" =>
        /\ calc.stage \in {"input", "done"}
        /\ calc.stage = "done" =>
             /\ calc.alloc # None
             /\ LET a == The(calc.alloc)
                    row == <<a["Equity"], a["Debt"], a["Gold"]>>
                IN /\ calc.risk = "Low" => row = <<30, 60, 10>>
                   /\ calc.risk = "Medium" => row = <<50, 40, 10>>
                   /\ calc.risk \notin {"Low", "Medium"} => row = <<70, 20, 10>>

UnknownLabelAllocated ==
    calc.op = "allocate" /\ calc.stage = "done" /\ calc.risk = "Aggressive"

AnnuityRoundTrip ==
    (calc.op = "plan" /\ calc.plan_type = "goal" /\ calc.stage = "done"
        /\ calc.rate > 0 /\ calc.amount > 0 /\ calc.years >= 1) =>
        /\ calc.back # None
        /\ Cmp(MulSmall(RateScaled(calc.rate, calc.years),
                        2 * Abs(The(calc.back) - calc.amount)),
               Add(GrowthMinusOne(calc.rate, calc.years),
                   RateScaled(calc.rate, calc.years))) <= 0

RoundTripOffTarget ==
    /\ calc.op = "plan" /\ calc.plan_type = "goal" /\ calc.stage = "done"
    /\ calc.rate = 12 /\ calc.amount = 4500000
    /\ calc.back # None
    /\ The(calc.back) # calc.amount

\* C5: fetch_cagr returns None whenever the downloaded history is empty or
\* lacks the adjusted-close column, and that is never fatal: the run raises
\* nothing, fetches the remaining tickers and executes the sections after
\* the CAGR section.
AbsentCagrNotFatal ==
    [][ /\ pc = "cagr" =>
            LET t == Tickers[Cardinality(DOMAIN returns) + 1]
                d == The(downloaded')
            IN /\ downloaded' # None
               /\ DOMAIN returns' = DOMAIN returns \cup {t}
               /\ (d.rows = <<>> \/ "Adj Close" \notin d.columns) => returns'[t] = None
               /\ exception' = "none"
               /\ pc' \in {"cagr", "average"}
        /\ (pc' = "idle" /\ "cagr" \in executed') =>
               /\ DOMAIN returns' = AllTickers
               /\ AfterCagr \subseteq executed'
               /\ exception' = "none"
      ]_vars

RunCompletedWithAbsentCagr ==
    /\ pc = "idle"
    /\ "feedback" \in executed
    /\ downloaded # None
    /\ "Adj Close" \in The(downloaded).columns
    /\ returns["Equity"] = None
    /\ returns["Gold"] # None

\* C6: the reported average is the mean, rounded to two decimals, of exactly
\* the estimates that are present (absent ones are in neither the sum nor the
\* count), and no average is reported when every estimate is absent.
AverageOverPresent ==
    "average" \in executed =>
        LET present == {t \in DOMAIN returns : returns[t] # None}
            n == Cardinality(present)
            total == SumOver(returns, present)
        IN IF n = 0
           THEN avg_cagr = None
           ELSE /\ avg_cagr # None
                /\ 2 * Abs(The(avg_cagr) * n - total) <= n

AverageWithOneAbsent ==
    /\ "average" \in executed
    /\ returns["Debt"] = None
    /\ returns["Equity"] # None
    /\ returns["Gold"] # None
    /\ avg_cagr # None

\* the response carries ["choices"][0]["message"]["content"]
HasContent(resp) ==
    /\ resp.delivered
    /\ resp.json
    /\ "choices" \in DOMAIN resp.body
    /\ Len(resp.body.choices) >= 1
    /\ "message" \in DOMAIN resp.body.choices[1]
    /\ "content" \in DOMAIN resp.body.choices[1].message

\* C7: explain_portfolio sends exactly one request per invocation and never
\* retries; a failed or malformed response surfaces as the raw exception, no
\* explanation is produced and no later step of that run (plan, CAGR, PDF,
\* Q&A, feedback) is executed.
TextGenFailurePropagates ==
    "explain" \in executed =>
        /\ posts = 1
        /\ response # None
        /\ IF HasContent(The(response))
           THEN explanation = Some(The(response).body.choices[1].message.content)
           ELSE /\ exception \in {"ConnectionError", "JSONDecodeError",
                                  "KeyError", "IndexError"}
                /\ explanation = None
                /\ pc = "idle"
                /\ executed \cap AfterExplain = {}

RunAbortedByEmptyChoices ==
    "explain" \in executed /\ exception = "IndexError" /\ pc = "idle"

\* C8: with a user logged in and a portfolio generated, a click on Generate
\* PDF Report leads to a run in which generate_pdf is invoked with that
\* portfolio's allocation, explanation and plan.
PdfClickGeneratesReport ==
    (pc = "idle" /\ clicked = "PDF" /\ "user" \in DOMAIN session) =>
        /\ "generate_pdf" \in executed
        /\ pdf_args # None

\* C9: the sections after the gate (profile, allocation, text generation,
\* price history, PDF) are executed only in a run that found 'user' in the
\* session state at the gate; 'user' is created only by a run in which Login
\* was pressed and removed only by Restart clearing the session state.
LoginGate ==
    [][ /\ (pc = "gate" /\ pc' # "idle") => "user" \in DOMAIN session
        /\ (executed' \cap AfterGate # {} \/ posts' > 0 \/ downloaded' # None
              \/ pdf_args' # None \/ allocation' # None) => "user" \in DOMAIN session'
        /\ ("user" \notin DOMAIN session /\ "user" \in DOMAIN session') =>
              (pc = "login_section" /\ clicked = "Login")
        /\ ("user" \in DOMAIN session /\ "user" \notin DOMAIN session') =>
              (pc = "feedback" /\ clicked = "Restart" /\ session' = EmptySession)
      ]_vars

RunPastGate ==
    pc = "idle" /\ "feedback" \in executed /\ "user" \in DOMAIN session

====
